---- MODULE Spec2Model ----
(***************************************************************************)
(* EU Adaptation Mission Query Tool: the question -> SQL -> result         *)
(* pipeline of src/app.py (get_sql_from_llm, run_query,                    *)
(* analyze_empty_results, generate_table_description and the query flow    *)
(* of the Streamlit script), and the loader of src/load_data.py that       *)
(* builds the database file the pipeline reads.                            *)
(*                                                                         *)
(* Texts (service replies, SQL statements, stored multi-value fields) are  *)
(* sequences of characters (one-character strings), so that str.strip,     *)
(* str.replace, str.upper, str.rsplit and the substring test (in) are      *)
(* computed character by character as Python computes them.               *)
(***************************************************************************)
EXTENDS Integers, Sequences, FiniteSets, TLC

VARIABLES
    apiKey,       \* OPENROUTER_API_KEY as read from the environment at script start
    store,        \* the SQLite file: the projects and participants tables
    pc,           \* position of the script run
    question,     \* st.text_input value of the submitted form
    resp,         \* what requests.post produced for the translation call
    sql,          \* value returned by get_sql_from_llm
    df,           \* first component of run_query's return value
    error,        \* second component of run_query's return value
    shown,        \* elements written to the page by this script run, in order
    openConns,    \* sqlite3 connections opened and not closed by conn.close()
    analysis,     \* return value of analyze_empty_results
    diag,         \* what the diagnostic pass did: steps run, step that raised
    summResp,     \* what requests.post produced for the summarization call
    description,  \* return value of generate_table_description
    fallbackLog,  \* row count, question, SQL and caption of every failed summarization
    calls,        \* external calls made by this script run
    runs,         \* script runs started so far
    sheets,       \* the two source spreadsheets of the loader
    frames,       \* df_participants and df_projects of the loader's main()
    lpc,          \* position of the loader
    loads         \* loader runs started so far

\* the loader's own state, and the application's apart from the store
loaderVars == << sheets, frames, lpc, loads >>
appVars == << apiKey, pc, question, resp, sql, df, error, shown, openConns, analysis,
              diag, summResp, description, fallbackLog, calls, runs >>

vars == << apiKey, store, pc, question, resp, sql, df, error, shown, openConns, analysis,
           diag, summResp, description, fallbackLog, calls, runs, sheets, frames, lpc,
           loads >>

----------------------------------------------------------------------------
(* Bounds of the model *)

\* script runs (submitted forms) in one behaviour
MaxRuns == 2
\* pieces (a character, a fence) of the arbitrary service replies of SpecFence
MaxPieces == 4
\* length of the statements SpecFence wraps in a code block
MaxStmtLen == 3
\* rows of the arbitrary result frames of SpecInterp
MaxRows == 2
\* characters of the coordinator labels of SpecLoad
MaxLabelLen == 4
\* data rows of the source spreadsheets of SpecLoad
MaxSourceRows == 2
\* loader runs in one behaviour
MaxLoads == 2

----------------------------------------------------------------------------
(* Text primitives: Python str methods used by src/app.py *)

LowerLetters ==
   << "a", "b", "c", "d", "e", "f", "g", "h", "i", "j", "k", "l", "m", "n", "o", "p", "q",
      "r", "s", "t", "u", "v", "w", "x", "y", "z" >>

UpperLetters ==
   << "A", "B", "C", "D", "E", "F", "G", "H", "I", "J", "K", "L", "M", "N", "O", "P", "Q",
      "R", "S", "T", "U", "V", "W", "X", "Y", "Z" >>

\* str.upper on one character: a lowercase letter maps to its capital, any
\* other character is unchanged.
UpperChar(c) ==
    IF \E i \in 1..Len(LowerLetters) : LowerLetters[i] = c
    THEN UpperLetters[CHOOSE i \in 1..Len(LowerLetters) : LowerLetters[i] = c]
    ELSE c

\* str.upper
upper(s) == [i \in 1..Len(s) |-> UpperChar(s[i])]

\* the characters str.strip() removes (those of them the model's texts use)
Whitespace == {" ", "\n"}

RECURSIVE lstrip(_)
lstrip(s) ==
    IF s = << >> THEN s
    ELSE IF Head(s) \in Whitespace THEN lstrip(Tail(s)) ELSE s

RECURSIVE rstrip(_)
rstrip(s) ==
    IF s = << >> THEN s
    ELSE IF s[Len(s)] \in Whitespace THEN rstrip(SubSeq(s, 1, Len(s) - 1)) ELSE s

\* str.strip()
strip(s) == rstrip(lstrip(s))

StartsWith(s, p) == Len(p) <= Len(s) /\ SubSeq(s, 1, Len(p)) = p

\* Python's  needle in s  on strings
Contains(needle, s) ==
    \E i \in 1..(Len(s) - Len(needle) + 1) : SubSeq(s, i, i + Len(needle) - 1) = needle

\* the occurrences of needle in s, by start index
Occurrences(needle, s) ==
    {i \in 1..(Len(s) - Len(needle) + 1) : SubSeq(s, i, i + Len(needle) - 1) = needle}

\* s.replace(old, ""): the leftmost occurrence of old is removed, then the
\* search goes on behind it (occurrences never overlap)
RECURSIVE Remove(_, _)
Remove(s, old) ==
    IF Occurrences(old, s) = {} THEN s
    ELSE LET i == CHOOSE k \in Occurrences(old, s) : \A j \in Occurrences(old, s) : k <= j
         IN  SubSeq(s, 1, i - 1) \o Remove(SubSeq(s, i + Len(old), Len(s)), old)

\* s[:n]
Prefix(s, n) == SubSeq(s, 1, IF Len(s) < n THEN Len(s) ELSE n)

\* the grave accent U+0060, which a TLA+ string cannot hold: the one character
\* of the model's texts that is written as a name
Backtick == "GRAVE"

\* the Markdown fence and the fence with the info string sql
Fence == << Backtick, Backtick, Backtick >>
FenceSql == << Backtick, Backtick, Backtick, "s", "q", "l" >>

----------------------------------------------------------------------------
(* Texts of the model *)

\* FROM projects
NeedleFromProjects ==
   << "F", "R", "O", "M", " ", "p", "r", "o", "j", "e", "c", "t", "s" >>

\* FROM participants
NeedleFromParticipants ==
   << "F", "R", "O", "M", " ", "p", "a", "r", "t", "i", "c", "i", "p", "a", "n", "t",
      "s" >>

\* climate_risks LIKE
NeedleRisksLike ==
   << "c", "l", "i", "m", "a", "t", "e", "_", "r", "i", "s", "k", "s", " ", "L", "I",
      "K", "E" >>

\* main_themes LIKE
NeedleThemesLike ==
   << "m", "a", "i", "n", "_", "t", "h", "e", "m", "e", "s", " ", "L", "I", "K", "E" >>

\* regions LIKE
NeedleRegionsLike ==
   << "r", "e", "g", "i", "o", "n", "s", " ", "L", "I", "K", "E" >>

\* Flod
TermFlod ==
   << "F", "l", "o", "d" >>

\* Flooding
TermFlooding ==
   << "F", "l", "o", "o", "d", "i", "n", "g" >>

\* Flooding; Drought
RiskFlooding ==
   << "F", "l", "o", "o", "d", "i", "n", "g", ";", " ", "D", "r", "o", "u", "g", "h",
      "t" >>

\* Extreme heat
RiskHeat ==
   << "E", "x", "t", "r", "e", "m", "e", " ", "h", "e", "a", "t" >>

\* SELECT acronym FROM projects WHERE climate_risks LIKE [Flod]
SqlRisk ==
   << "S", "E", "L", "E", "C", "T", " ", "a", "c", "r", "o", "n", "y", "m", " ", "F",
      "R", "O", "M", " ", "p", "r", "o", "j", "e", "c", "t", "s", " ", "W", "H", "E",
      "R", "E", " ", "c", "l", "i", "m", "a", "t", "e", "_", "r", "i", "s", "k", "s",
      " ", "L", "I", "K", "E", " ", "'", "%", "F", "l", "o", "d", "%", "'" >>

\* SELECT AVG(total_budget_euro) FROM projects WHERE climate_risks LIKE [Flooding]
SqlAvg ==
   << "S", "E", "L", "E", "C", "T", " ", "A", "V", "G", "(", "t", "o", "t", "a", "l",
      "_", "b", "u", "d", "g", "e", "t", "_", "e", "u", "r", "o", ")", " ", "F", "R",
      "O", "M", " ", "p", "r", "o", "j", "e", "c", "t", "s", " ", "W", "H", "E", "R",
      "E", " ", "c", "l", "i", "m", "a", "t", "e", "_", "r", "i", "s", "k", "s", " ",
      "L", "I", "K", "E", " ", "'", "%", "F", "l", "o", "o", "d", "i", "n", "g", "%",
      "'" >>

\* SELECT legal_name FROM participants WHERE country_territory = "Atlantis"
SqlCountry ==
   << "S", "E", "L", "E", "C", "T", " ", "l", "e", "g", "a", "l", "_", "n", "a", "m",
      "e", " ", "F", "R", "O", "M", " ", "p", "a", "r", "t", "i", "c", "i", "p", "a",
      "n", "t", "s", " ", "W", "H", "E", "R", "E", " ", "c", "o", "u", "n", "t", "r",
      "y", "_", "t", "e", "r", "r", "i", "t", "o", "r", "y", " ", "=", " ", "'", "A",
      "t", "l", "a", "n", "t", "i", "s", "'" >>

\* SELECT acronym, total_budget_euro FROM projects
SqlAll ==
   << "S", "E", "L", "E", "C", "T", " ", "a", "c", "r", "o", "n", "y", "m", ",", " ",
      "t", "o", "t", "a", "l", "_", "b", "u", "d", "g", "e", "t", "_", "e", "u", "r",
      "o", " ", "F", "R", "O", "M", " ", "p", "r", "o", "j", "e", "c", "t", "s" >>

\* SELECT acronym, acronym FROM projects
SqlDup ==
   << "S", "E", "L", "E", "C", "T", " ", "a", "c", "r", "o", "n", "y", "m", ",", " ",
      "a", "c", "r", "o", "n", "y", "m", " ", "F", "R", "O", "M", " ", "p", "r", "o",
      "j", "e", "c", "t", "s" >>

\* SELEC acronym FROM projects
SqlBad ==
   << "S", "E", "L", "E", "C", " ", "a", "c", "r", "o", "n", "y", "m", " ", "F", "R",
      "O", "M", " ", "p", "r", "o", "j", "e", "c", "t", "s" >>

\* DROP TABLE projects
SqlDrop ==
   << "D", "R", "O", "P", " ", "T", "A", "B", "L", "E", " ", "p", "r", "o", "j", "e",
      "c", "t", "s" >>

\* SELECT name FROM sqlite_master WHERE type = "table"
SqlMaster ==
   << "S", "E", "L", "E", "C", "T", " ", "n", "a", "m", "e", " ", "F", "R", "O", "M",
      " ", "s", "q", "l", "i", "t", "e", "_", "m", "a", "s", "t", "e", "r", " ", "W",
      "H", "E", "R", "E", " ", "t", "y", "p", "e", " ", "=", " ", "'", "t", "a", "b",
      "l", "e", "'" >>

----------------------------------------------------------------------------
(* The reasoning service, as requests.post sees it *)

\* body of a response: the generated text under choices[0].message.content,
\* or a body response.json() / the key path cannot read
Body(t) == [ok |-> TRUE, text |-> t]
MalformedBody == [ok |-> FALSE, text |-> << >>]

\* requests.post returned a response / raised (connection error, timeout)
Response(status, body) == [kind |-> "response", status |-> status, body |-> body]
NetworkFault == [kind |-> "network", status |-> 0, body |-> MalformedBody]
NoResponse == [kind |-> "none", status |-> 0, body |-> MalformedBody]
\* the service holds the connection open and never answers: requests.post is
\* called without a timeout argument, so it neither returns nor raises
Silent == [kind |-> "silent", status |-> 0, body |-> MalformedBody]

\* a Markdown code block with info string "sql", and one without
FencedSql(t) == FenceSql \o << "\n" >> \o t \o << "\n" >> \o Fence
FencedBare(t) == Fence \o << "\n" >> \o t \o << "\n" >> \o Fence

\* the texts the service answers with
Replies ==
    { FencedSql(SqlRisk), FencedBare(SqlCountry), SqlAvg \o << "\n" >>, SqlAll, SqlDup,
      SqlBad, SqlDrop, SqlMaster }

ErrorStatuses == {401, 429, 500, 503}

Responses ==
    {Response(200, Body(t)) : t \in Replies}
        \cup {Response(200, MalformedBody), NetworkFault}
        \cup {Response(s, MalformedBody) : s \in ErrorStatuses}

\* the captions the service answers with (summarization call)
Captions == { << "o", "k" >> }

SummaryResponses ==
    {Response(200, Body(t)) : t \in Captions}
        \cup {Response(200, MalformedBody), NetworkFault}
        \cup {Response(s, MalformedBody) : s \in ErrorStatuses}

----------------------------------------------------------------------------
(* Page elements *)

\* one st.<kind>(...) call: msg is the fixed text, code and detail the
\* interpolated status code and diagnostic text
El(kind, msg, code, detail) ==
    [kind |-> kind, msg |-> msg, code |-> code, detail |-> detail]

MsgInvalidKey == "Invalid API key. Please check OPENROUTER_API_KEY environment variable."
MsgRateLimit == "Rate limit exceeded. Please try again in a moment."
MsgApiError == "API error"
MsgUnexpected == "Unexpected error"
MsgQueryError == "Query error"
MsgOuterError == "Error"
MsgNoResults == "No results found for your query."

----------------------------------------------------------------------------
(* get_sql_from_llm *)

\* response.raise_for_status(): HTTPError for 4xx and 5xx
RaisesForStatus(status) == status >= 400 /\ status < 600

\* StripFences with a fault: the bare fence is left in place
MutStripFences(content) == strip(Remove(strip(content), FenceSql))

\* content.strip(), then the two replace calls that remove the sql fence and
\* the bare fence, then strip() again
StripFences(content) == strip(Remove(Remove(strip(content), FenceSql), Fence))

\* TranslationError with a fault: the rate-limit branch is missing
MutTranslationError(r) ==
    IF r.kind = "response" /\ RaisesForStatus(r.status)
    THEN IF r.status = 401 THEN El("error", MsgInvalidKey, 0, "")
         ELSE El("error", MsgApiError, r.status, "HTTPError")
    ELSE El("error", MsgUnexpected, 0, "Exception")

\* the st.error of the except clauses
TranslationError(r) ==
    IF r.kind = "response" /\ RaisesForStatus(r.status)
    THEN IF r.status = 401 THEN El("error", MsgInvalidKey, 0, "")
         ELSE IF r.status = 429 THEN El("error", MsgRateLimit, 0, "")
         ELSE El("error", MsgApiError, r.status, "HTTPError")
    ELSE El("error", MsgUnexpected, 0, "Exception")

\* the try block runs to its return exactly when the post returned a
\* response, its status is no error status and the body holds the text
TranslationSucceeds(r) ==
    r.kind = "response" /\ ~RaisesForStatus(r.status) /\ r.body.ok

----------------------------------------------------------------------------
(* The store and pd.read_sql *)

\* a cell: SQL NULL, or a value (a text, a country name, an amount)
NullText == [null |-> TRUE, v |-> << >>]
NullName == [null |-> TRUE, v |-> ""]
NullNum == [null |-> TRUE, v |-> 0]
Val(v) == [null |-> FALSE, v |-> v]

Project(acr, risks, budget) ==
    [acronym |-> acr, climate_risks |-> risks, total_budget_euro |-> budget,
     coordinator |-> NullText, coordinator_org |-> NullText,
     coordinator_country |-> NullText]
Participant(country) == [country_territory |-> country]

\* the tables the loader creates
AllTables == {"projects", "participants"}

\* the database file: the tables that exist and their rows
Store(projects, participants) ==
    [tables |-> AllTables, projects |-> projects, participants |-> participants]

Stores ==
    { Store(<< >>, << >>),
      Store(<< Project("A1", Val(RiskFlooding), Val(5)) >>,
            << Participant(Val("Spain")), Participant(Val("Italy")),
               Participant(Val("Spain")) >>),
      Store(<< Project("A1", NullText, NullNum) >>, << Participant(Val("Italy")) >>),
      Store(<< Project("A1", Val(RiskHeat), NullNum),
               Project("A2", Val(RiskFlooding), Val(7)) >>,
            << Participant(NullName), Participant(Val("Spain")) >>) }

\* a DataFrame: row count and the columns with their dtype and null mask
NoneDf == [none |-> TRUE, nrows |-> 0, cols |-> << >>]
Frame(n, cols) == [none |-> FALSE, nrows |-> n, cols |-> cols]
Col(name, dtype, isna) == [name |-> name, dtype |-> dtype, isna |-> isna]

NoneErr == [none |-> TRUE, text |-> ""]
Err(t) == [none |-> FALSE, text |-> t]

\* x LIKE '%term%': SQLite's LIKE ignores ASCII case; NULL never matches
Like(x, term) == ~x.null /\ Contains(upper(term), upper(x.v))

\* dtype pandas infers for a column of REAL values: all-None stays object
FloatDtype(cells) ==
    IF \A i \in 1..Len(cells) : cells[i].null THEN "object" ELSE "float64"

NullMask(cells) == [i \in 1..Len(cells) |-> cells[i].null]
NoNulls(n) == [i \in 1..n |-> FALSE]

MsgExecutionFailed == "Execution failed on sql"
MsgCannotOpen == "unable to open database file"
MsgNotIterable == "'NoneType' object is not iterable"

\* the statements of the model that read the projects table
OnProjects == {SqlRisk, SqlAvg, SqlAll, SqlDup}

\* the database file after pd.read_sql(sql, conn) handed the statement to the
\* engine.  sqlite3 opens no transaction for a DDL statement, so DROP TABLE
\* takes effect at once; a SELECT changes nothing.
StoreAfter(s, st) ==
    IF s = SqlDrop /\ "projects" \in st.tables
    THEN [st EXCEPT !.tables = @ \ {"projects"}, !.projects = << >>]
    ELSE st

\* pd.read_sql(sql, conn) on the statements the model knows; any other text
\* is rejected by the store.  A statement that returns no rows description
\* (DROP TABLE) is executed and then makes pandas raise TypeError.
ReadSql(s, st) ==
    LET flod == SelectSeq(st.projects, LAMBDA p : Like(p.climate_risks, TermFlod))
        flooding == SelectSeq(st.projects, LAMBDA p : Like(p.climate_risks, TermFlooding))
        budgets == SelectSeq(flooding, LAMBDA p : ~p.total_budget_euro.null)
        atlantis == SelectSeq(st.participants,
                           LAMBDA r : ~r.country_territory.null
                                      /\ r.country_territory.v = "Atlantis")
        all == [i \in 1..Len(st.projects) |-> st.projects[i].total_budget_euro]
        n == Len(st.projects)
    IN  IF s \in OnProjects \cup {SqlDrop} /\ "projects" \notin st.tables
        THEN [ok |-> FALSE, text |-> MsgExecutionFailed, df |-> NoneDf]
        ELSE IF s = SqlDrop
        THEN [ok |-> FALSE, text |-> MsgNotIterable, df |-> NoneDf]
        ELSE IF s = SqlMaster
        THEN [ok |-> TRUE, text |-> "",
              df |-> Frame(Cardinality(st.tables),
                           << Col("name", "object", NoNulls(Cardinality(st.tables))) >>)]
        ELSE IF s = SqlRisk
        THEN [ok |-> TRUE, text |-> "",
              df |-> Frame(Len(flod), << Col("acronym", "object", NoNulls(Len(flod))) >>)]
        ELSE IF s = SqlAvg
        THEN [ok |-> TRUE, text |-> "",
              df |-> Frame(1, << Col("AVG(total_budget_euro)",
                                     IF budgets = << >> THEN "object" ELSE "float64",
                                     << budgets = << >> >>) >>)]
        ELSE IF s = SqlCountry
        THEN [ok |-> TRUE, text |-> "",
              df |-> Frame(Len(atlantis),
                           << Col("legal_name", "object", NoNulls(Len(atlantis))) >>)]
        ELSE IF s = SqlAll
        THEN [ok |-> TRUE, text |-> "",
              df |-> Frame(n, << Col("acronym", "object", NoNulls(n)),
                                 Col("total_budget_euro", FloatDtype(all), NullMask(all)) >>)]
        ELSE IF s = SqlDup
        THEN [ok |-> TRUE, text |-> "",
              df |-> Frame(n, << Col("acronym", "object", NoNulls(n)),
                                 Col("acronym", "object", NoNulls(n)) >>)]
        ELSE [ok |-> FALSE, text |-> MsgExecutionFailed, df |-> NoneDf]

\* faults of one run_query call that do not depend on the statement:
\* sqlite3.connect raises; pd.read_sql raises MemoryError, whose str() is ""
QueryFaults == {"none", "connect", "memory"}

\* run_query: what it returns, whether it leaves its connection open, and
\* the database file after the call
run_query(s, st, fault) ==
    IF fault = "connect"
    THEN [df |-> NoneDf, error |-> Err(MsgCannotOpen), leaked |-> 0, store |-> st]
    ELSE IF fault = "memory"
    THEN [df |-> NoneDf, error |-> Err(""), leaked |-> 1, store |-> st]
    ELSE IF ReadSql(s, st).ok
    THEN [df |-> ReadSql(s, st).df, error |-> NoneErr, leaked |-> 0,
          store |-> StoreAfter(s, st)]
    ELSE [df |-> NoneDf, error |-> Err(ReadSql(s, st).text), leaked |-> 1,
          store |-> StoreAfter(s, st)]

----------------------------------------------------------------------------
(* The ingestion loader: src/load_data.py *)

\* a source spreadsheet: the file may be absent, pd.read_excel may raise on
\* it, or it holds data rows
Missing == [exists |-> FALSE, readable |-> FALSE, rows |-> << >>]
Unreadable == [exists |-> TRUE, readable |-> FALSE, rows |-> << >>]
Sheet(rows) == [exists |-> TRUE, readable |-> TRUE, rows |-> rows]

\* a row of the projects spreadsheet
SourceProject(acr, risks, budget, coord) ==
    [acronym |-> acr, climate_risks |-> risks, total_budget_euro |-> budget,
     coordinator |-> coord]

\* what a load function returns: None, or the frame's rows
NoneRows == [none |-> TRUE, rows |-> << >>]
Rows(r) == [none |-> FALSE, rows |-> r]

\* index of the last c in s (s holds one)
LastIndexOf(c, s) ==
    CHOOSE i \in 1..Len(s) : s[i] = c /\ \A j \in (i + 1)..Len(s) : s[j] # c

\* coord_str.rsplit(",", 1) on a text that holds a comma
rsplit(s) ==
    LET k == LastIndexOf(",", s)
    IN  << SubSeq(s, 1, k - 1), SubSeq(s, k + 1, Len(s)) >>

\* parse_coordinator with a fault: the organization keeps its letter case
MutParseCoordinator(coord_str) ==
    IF coord_str.null \/ ~Contains(<< "," >>, coord_str.v)
    THEN << coord_str, NullText, NullText >>
    ELSE LET parts == rsplit(coord_str.v)
         IN  << coord_str, Val(strip(parts[1])), Val(strip(parts[2])) >>

\* parse_coordinator: the label, the organization, the country
parse_coordinator(coord_str) ==
    IF coord_str.null \/ ~Contains(<< "," >>, coord_str.v)
    THEN << coord_str, NullText, NullText >>
    ELSE LET parts == rsplit(coord_str.v)
         IN  << coord_str, Val(upper(strip(parts[1]))), Val(strip(parts[2])) >>

\* load_participants: the columns renamed; None when pd.read_excel raises
load_participants(sheet) ==
    IF sheet.readable THEN Rows(sheet.rows) ELSE NoneRows

\* load_projects: the columns renamed and the three coordinator columns set
\* from parse_coordinator; None when pd.read_excel raises
load_projects(sheet) ==
    IF sheet.readable
    THEN Rows([i \in 1..Len(sheet.rows) |->
                 LET r == sheet.rows[i]
                     parsed == parse_coordinator(r.coordinator)
                 IN  [Project(r.acronym, r.climate_risks, r.total_budget_euro)
                         EXCEPT !.coordinator = parsed[1],
                                !.coordinator_org = parsed[2],
                                !.coordinator_country = parsed[3]]])
    ELSE NoneRows

\* to_sql with a fault: the rows are added to the rows the table holds
MutToSql(st, name, rows) ==
    [st EXCEPT !.tables = @ \cup {name}, ![name] = @ \o rows]

\* df.to_sql(name, conn, if_exists="replace", ...): the table is dropped and
\* created again with one row per row of the frame
to_sql(st, name, rows) ==
    [st EXCEPT !.tables = @ \cup {name}, ![name] = rows]

\* the to_sql call of create_database that raises, if any
CreateFaults == {"none", "participants", "projects"}

\* create_database: the database file after the call, and whether the call
\* ran to its end
create_database(st, df_participants, df_projects, fault) ==
    IF df_participants.none \/ df_projects.none
    THEN [store |-> st, done |-> FALSE]
    ELSE IF fault = "participants"
    THEN [store |-> st, done |-> FALSE]
    ELSE IF fault = "projects"
    THEN [store |-> to_sql(st, "participants", df_participants.rows), done |-> FALSE]
    ELSE [store |-> to_sql(to_sql(st, "participants", df_participants.rows),
                           "projects", df_projects.rows),
          done |-> TRUE]

NoSheets == [participants |-> Missing, projects |-> Missing]
NoFrames == [participants |-> NoneRows, projects |-> NoneRows]

\* the loader is not running
LoaderAtRest ==
    /\ sheets = NoSheets
    /\ frames = NoFrames
    /\ lpc = "ready"
    /\ loads = 0

----------------------------------------------------------------------------
(* Result interpretation: lines 545-548 of the query flow *)

\* dtypes that select_dtypes(include=['number']) keeps
NumberDtypes == {"int64", "float64"}

\* is_empty = len(df) == 0
is_empty(d) == d.nrows = 0

\* is_null_aggregation with a fault: the len(df) == 1 conjunct is missing
MutIsNullAggregation(d) ==
    \A i \in 1..Len(d.cols) :
        d.cols[i].dtype \in NumberDtypes => \A r \in 1..d.nrows : d.cols[i].isna[r]

\* is_null_aggregation with a fault: a frame without numeric columns does not
\* count
MutIsNullAggregationNumeric(d) ==
    /\ d.nrows = 1
    /\ \E i \in 1..Len(d.cols) : d.cols[i].dtype \in NumberDtypes
    /\ \A i \in 1..Len(d.cols) :
          d.cols[i].dtype \in NumberDtypes
              => \A r \in 1..d.nrows : d.cols[i].isna[r]

\* is_null_aggregation = len(df) == 1 and
\*     df.select_dtypes(include=['number']).isna().all().all()
is_null_aggregation(d) ==
    /\ d.nrows = 1
    /\ \A i \in 1..Len(d.cols) :
          d.cols[i].dtype \in NumberDtypes
              => \A r \in 1..d.nrows : d.cols[i].isna[r]

----------------------------------------------------------------------------
(* analyze_empty_results *)

Sugg(tag, text, list) == [tag |-> tag, text |-> text, list |-> list]

TipCase == Sugg("Tip: exact capitalization", << >>, << >>)
TipCommonRisks == Sugg("Common climate risks", << >>, << >>)
TipCommonThemes == Sugg("Common themes", << >>, << >>)
ExampleRisks(t) == Sugg("Example climate risks in database", t, << >>)
TopCountriesLine(l) == Sugg("Top countries with participants", << >>, l)
UnableToAnalyze == Sugg("Unable to analyze query", << >>, << >>)

\* LIMIT 5 of both probe statements
ProbeLimit == 5
\* the [:100] cut of the example value
ExampleCut == 100

\* the values of s in order of first appearance
RECURSIVE Distinct(_)
Distinct(s) ==
    IF s = << >> THEN << >>
    ELSE LET r == Distinct(SubSeq(s, 1, Len(s) - 1))
         IN  IF \E i \in 1..Len(r) : r[i] = s[Len(s)] THEN r ELSE Append(r, s[Len(s)])

\* SELECT DISTINCT climate_risks FROM projects
\*     WHERE climate_risks IS NOT NULL LIMIT 5
SampleRisks(st) ==
    LET nonNull == SelectSeq(st.projects, LAMBDA p : ~p.climate_risks.null)
    IN  Prefix(Distinct([i \in 1..Len(nonNull) |-> nonNull[i].climate_risks.v]),
               ProbeLimit)

\* the groups in S by descending count (ties in the order the engine picks)
RECURSIVE SortDesc(_)
SortDesc(S) ==
    IF S = {} THEN << >>
    ELSE LET m == CHOOSE x \in S : \A y \in S : y[2] <= x[2]
         IN  << m >> \o SortDesc(S \ {m})

\* SELECT country_territory, COUNT(*) as cnt FROM participants
\*     GROUP BY country_territory ORDER BY cnt DESC LIMIT 5
TopCountries(st) ==
    LET rows == st.participants
        groups == {rows[i].country_territory : i \in 1..Len(rows)}
        count(g) == Cardinality({i \in 1..Len(rows) : rows[i].country_territory = g})
    IN  Prefix(SortDesc({<< g, count(g) >> : g \in groups}), ProbeLimit)

\* the step of the pass at which an exception is raised, if any:
\* sqlite3.connect, the climate-risk probe, the country probe
AnalyzeFaults == {"none", "connect", "risks", "countries"}

\* analyze_empty_results(sql, question, db_path).  One try block holds the
\* whole pass; its except returns the single message.  ran: the probe
\* statements executed; failed: the step that raised; leaked: 1 when the
\* connection was opened and conn.close() not reached.
analyze_empty_results(s, st, fault) ==
    LET onProjects == Contains(NeedleFromProjects, upper(s))
        hasLike == \/ Contains(NeedleRisksLike, s)
                   \/ Contains(NeedleThemesLike, s)
                   \/ Contains(NeedleRegionsLike, s)
        tips == IF onProjects /\ hasLike
                THEN << TipCase, TipCommonRisks, TipCommonThemes >>
                ELSE << >>
        sample == SampleRisks(st)
        example == IF onProjects /\ sample # << >>
                   THEN << ExampleRisks(Prefix(sample[1], ExampleCut)) >>
                   ELSE << >>
        onParticipants == Contains(NeedleFromParticipants, upper(s))
        top == TopCountries(st)
        countries == IF onParticipants /\ top # << >>
                     THEN << TopCountriesLine(top) >>
                     ELSE << >>
        caught(step, ran, leaked) ==
            [suggestions |-> << UnableToAnalyze >>, failed |-> step, ran |-> ran,
             leaked |-> leaked]
    IN  IF fault = "connect" THEN caught("connect", {}, 0)
        ELSE IF onProjects /\ fault = "risks" THEN caught("risks", {}, 1)
        ELSE IF onParticipants /\ fault = "countries"
        THEN caught("countries", IF onProjects THEN {"risks"} ELSE {}, 1)
        ELSE [suggestions |-> tips \o example \o countries,
              failed |-> "none",
              ran |-> (IF onProjects THEN {"risks"} ELSE {})
                          \cup (IF onParticipants THEN {"countries"} ELSE {}),
              leaked |-> 0]

NoDiag == [failed |-> "none", ran |-> {}]

----------------------------------------------------------------------------
(* generate_table_description *)

Description(kind, text, rows) == [kind |-> kind, text |-> text, rows |-> rows]
NoDescription == Description("none", << >>, 0)

\* FallbackCaption with a fault: the caption quotes the statement
MutFallbackCaption(q, s, d) == Description("fallback", s, d.nrows)

\* the except clause: f"Table showing {len(df)} results for your query."
FallbackCaption(q, s, d) == Description("fallback", << >>, d.nrows)

\* the try block reaches its return exactly when the post returned a
\* response, its status is no error status and the body holds the text
SummarySucceeds(r) ==
    r.kind = "response" /\ ~RaisesForStatus(r.status) /\ r.body.ok

generate_table_description(q, s, d, r) ==
    IF SummarySucceeds(r)
    THEN Description("llm", strip(r.body.text), 0)
    ELSE FallbackCaption(q, s, d)

----------------------------------------------------------------------------
(* Normal results display: lines 566-629 *)

\* format_column_name on the column names of the model
format_column_name(name) ==
    CASE name = "acronym" -> "Acronym"
      [] name = "legal_name" -> "Legal Name"
      [] name = "total_budget_euro" -> "Total Budget (€)"
      [] name = "AVG(total_budget_euro)" -> "Avg(total Budget Euro)"
      [] name = "name" -> "Name"
      [] name = "c1" -> "C1"
      [] name = "c2" -> "C2"
      [] OTHER -> name

\* df[col] is a DataFrame, which has no dtype attribute, when two columns
\* bear the name col: line 595 raises AttributeError
LabelsCollide(d) ==
    \E i, j \in 1..Len(d.cols) :
        i # j /\ format_column_name(d.cols[i].name) = format_column_name(d.cols[j].name)

\* lines 588-599: the columns renamed, every float column turned into text
FormatFrame(d) ==
    [d EXCEPT !.cols =
        [i \in 1..Len(d.cols) |->
            IF d.cols[i].dtype = "float64"
            THEN Col(format_column_name(d.cols[i].name), "object", NoNulls(d.nrows))
            ELSE Col(format_column_name(d.cols[i].name), d.cols[i].dtype,
                     d.cols[i].isna)]]

----------------------------------------------------------------------------
(* Configuration: lines 22-37 *)

\* os.getenv("OPENROUTER_API_KEY"): None when the variable is not set
NoKey == [none |-> TRUE, text |-> ""]
Key(t) == [none |-> FALSE, text |-> t]

Environments == {NoKey, Key(""), Key("sk-or-v1")}

MsgMissingKey == "Missing API Key"

\* KeyMissing with a fault: only an unset variable counts as missing
MutKeyMissing(k) == k.none

\* not OPENROUTER_API_KEY: None and the empty text are both false
KeyMissing(k) == k.none \/ k.text = ""

----------------------------------------------------------------------------
(* The script run: lines 529-655 *)

Questions == {"", "Which projects address flooding?", "Top 5 projects by budget"}

NoCalls == [translate |-> 0, execute |-> 0, summarize |-> 0]

Show(els) == shown \o els

\* A script run starts: the page is rebuilt from nothing.  The query flow is
\* entered when the Query button was pressed with a non-empty question.
Submit ==
    /\ pc \in {"idle", "done", "stopped"}
    /\ ~KeyMissing(apiKey)
    /\ runs < MaxRuns
    /\ \E q \in Questions :
          /\ question' = q
          /\ pc' = IF q = "" THEN "done" ELSE "translate"
    /\ runs' = runs + 1
    /\ resp' = NoResponse
    /\ sql' = << >>
    /\ df' = NoneDf
    /\ error' = NoneErr
    /\ shown' = << >>
    /\ analysis' = << >>
    /\ diag' = NoDiag
    /\ summResp' = NoResponse
    /\ description' = NoDescription
    /\ calls' = NoCalls
    /\ UNCHANGED << loaderVars, apiKey, store, openConns, fallbackLog >>

\* lines 23-37: without a credential every script run shows the
\* configuration error and st.stop() ends it before the form is built
HaltNoKey ==
    /\ pc \in {"idle", "halted"}
    /\ KeyMissing(apiKey)
    /\ shown' = << El("error", MsgMissingKey, 0, ""),
                   El("markdown", "Please set the OPENROUTER_API_KEY", 0, "") >>
    /\ pc' = "halted"
    /\ UNCHANGED << loaderVars, apiKey, store, question, resp, sql, df, error,
                    openConns, analysis, diag, summResp, description, fallbackLog,
                    calls, runs >>

\* get_sql_from_llm, lines 304-318: the request is posted; the script run
\* waits for as long as the service stays silent
PostTranslation ==
    /\ pc = "translate"
    /\ \E r \in Responses \cup {Silent} :
          /\ resp' = r
          /\ pc' = IF r = Silent THEN "waiting" ELSE "translated"
    /\ calls' = [calls EXCEPT !.translate = @ + 1]
    /\ UNCHANGED << loaderVars, apiKey, store, question, sql, df, error, shown,
                    openConns, analysis, diag, summResp, description, fallbackLog,
                    runs >>

\* Translate with a fault: a rate-limited request is posted again
MutTranslateRetry ==
    /\ pc = "translated"
    /\ IF TranslationSucceeds(resp)
       THEN /\ sql' = StripFences(resp.body.text)
            /\ pc' = "execute"
            /\ shown' = shown
       ELSE IF resp.kind = "response" /\ resp.status = 429
       THEN /\ pc' = "translate"
            /\ shown' = shown
            /\ sql' = sql
       ELSE /\ shown' = Show(<< TranslationError(resp) >>)
            /\ pc' = "stopped"
            /\ sql' = sql
    /\ UNCHANGED << loaderVars, apiKey, store, question, resp, df, error, openConns,
                    analysis, diag, summResp, description, fallbackLog, calls,
                    runs >>

\* Translate with a fault: the handler of line 654 catches the stop and
\* reports it
MutTranslateCaught ==
    /\ pc = "translated"
    /\ IF TranslationSucceeds(resp)
       THEN /\ sql' = StripFences(resp.body.text)
            /\ pc' = "execute"
            /\ shown' = shown
       ELSE /\ shown' = Show(<< TranslationError(resp),
                                El("error", MsgOuterError, 0, "StopException") >>)
            /\ pc' = "done"
            /\ sql' = sql
    /\ UNCHANGED << loaderVars, apiKey, store, question, resp, df, error, openConns,
                    analysis, diag, summResp, description, fallbackLog, calls,
                    runs >>

\* get_sql_from_llm, lines 319-335: the statement is returned, or the error
\* is shown and st.stop() ends the script run
Translate ==
    /\ pc = "translated"
    /\ IF TranslationSucceeds(resp)
       THEN /\ sql' = StripFences(resp.body.text)
            /\ pc' = "execute"
            /\ shown' = shown
       ELSE /\ shown' = Show(<< TranslationError(resp) >>)
            /\ pc' = "stopped"
            /\ sql' = sql
    /\ UNCHANGED << loaderVars, apiKey, store, question, resp, df, error, openConns,
                    analysis, diag, summResp, description, fallbackLog, calls,
                    runs >>

\* line 537: df, error = run_query(sql, DB_PATH)
RunQuery ==
    /\ pc = "execute"
    /\ \E fault \in QueryFaults :
          LET r == run_query(sql, store, fault)
          IN  /\ df' = r.df
              /\ error' = r.error
              /\ openConns' = openConns + r.leaked
              /\ store' = r.store
    /\ calls' = [calls EXCEPT !.execute = @ + 1]
    /\ pc' = "executed"
    /\ UNCHANGED << loaderVars, apiKey, question, resp, sql, shown, analysis, diag,
                    summResp, description, fallbackLog, runs >>

\* Branch with a fault: after the warning the result is displayed all the same
MutBranch ==
    /\ pc = "executed"
    /\ IF ~error.none /\ error.text # ""
       THEN /\ shown' = Show(<< El("error", MsgQueryError, 0, error.text) >>)
            /\ pc' = "done"
       ELSE IF ~df.none
       THEN IF is_empty(df) \/ is_null_aggregation(df)
            THEN /\ shown' = Show(<< El("warning", MsgNoResults, 0, "") >>)
                 /\ pc' = "display"
            ELSE /\ shown' = shown
                 /\ pc' = "display"
       ELSE /\ shown' = shown
            /\ pc' = "done"
    /\ UNCHANGED << loaderVars, apiKey, store, question, resp, sql, df, error,
                    openConns, analysis, diag, summResp, description, fallbackLog,
                    calls, runs >>

\* lines 541-549: if error / elif df is not None, and the classification
Branch ==
    /\ pc = "executed"
    /\ IF ~error.none /\ error.text # ""
       THEN /\ shown' = Show(<< El("error", MsgQueryError, 0, error.text) >>)
            /\ pc' = "done"
       ELSE IF ~df.none
       THEN IF is_empty(df) \/ is_null_aggregation(df)
            THEN /\ shown' = Show(<< El("warning", MsgNoResults, 0, "") >>)
                 /\ pc' = "analyze"
            ELSE /\ shown' = shown
                 /\ pc' = "display"
       ELSE /\ shown' = shown
            /\ pc' = "done"
    /\ UNCHANGED << loaderVars, apiKey, store, question, resp, sql, df, error,
                    openConns, analysis, diag, summResp, description, fallbackLog,
                    calls, runs >>

\* lines 552-563: the diagnostic pass, its suggestions, the generated SQL
Analyze ==
    /\ pc = "analyze"
    /\ \E fault \in AnalyzeFaults :
          LET a == analyze_empty_results(sql, store, fault)
          IN  /\ analysis' = a.suggestions
              /\ diag' = [failed |-> a.failed, ran |-> a.ran]
              /\ openConns' = openConns + a.leaked
              /\ shown' = Show(
                    (IF a.suggestions # << >>
                     THEN << El("info", "Suggestions", 0, "") >>
                              \o [i \in 1..Len(a.suggestions) |->
                                     El("markdown", a.suggestions[i].tag, 0, "")]
                     ELSE << >>)
                    \o << El("code", "sql", 0, ""), El("caption", "Query executed", 0, "") >>)
    /\ pc' = "done"
    /\ UNCHANGED << loaderVars, apiKey, store, question, resp, sql, df, error,
                    summResp, description, fallbackLog, calls, runs >>

\* lines 566-629: the frame is formatted and the table displayed; an
\* exception on the way is reported by the handler of line 654
Display ==
    /\ pc = "display"
    /\ IF LabelsCollide(df)
       THEN /\ shown' = Show(<< El("subheader", "Results", 0, ""),
                                El("error", MsgOuterError, 0, "AttributeError") >>)
            /\ df' = df
            /\ pc' = "done"
       ELSE /\ df' = FormatFrame(df)
            /\ shown' = Show(<< El("subheader", "Results", 0, ""),
                                El("dataframe", "styled_df", 0, "") >>)
            /\ pc' = "summarize"
    /\ UNCHANGED << loaderVars, apiKey, store, question, resp, sql, error,
                    openConns, analysis, diag, summResp, description, fallbackLog,
                    calls, runs >>

\* generate_table_description, lines 362-373: the request is posted; the
\* script run waits for as long as the service stays silent
PostSummary ==
    /\ pc = "summarize"
    /\ \E r \in SummaryResponses \cup {Silent} :
          /\ summResp' = r
          /\ pc' = IF r = Silent THEN "waiting" ELSE "summarized"
    /\ calls' = [calls EXCEPT !.summarize = @ + 1]
    /\ UNCHANGED << loaderVars, apiKey, store, question, resp, sql, df, error,
                    shown, openConns, analysis, diag, description, fallbackLog,
                    runs >>

\* Summarize with a fault: a failed summarization is reported and ends the
\* script run
MutSummarize ==
    /\ pc = "summarized"
    /\ description' = generate_table_description(question, sql, df, summResp)
    /\ fallbackLog' = fallbackLog
    /\ IF SummarySucceeds(summResp)
       THEN /\ shown' = Show(<< El("markdown", "About this data", 0, ""),
                                El("caption", "Query executed", 0, ""),
                                El("code", "sql", 0, ""),
                                El("download_button", "Download CSV", 0, "") >>)
            /\ pc' = "done"
       ELSE /\ shown' = Show(<< El("error", MsgOuterError, 0, "") >>)
            /\ pc' = "stopped"
    /\ UNCHANGED << loaderVars, apiKey, store, question, resp, sql, df, error,
                    openConns, analysis, diag, summResp, calls, runs >>

\* generate_table_description, lines 374-377, and lines 634-652: the caption,
\* the generated SQL, the CSV download
Summarize ==
    /\ pc = "summarized"
    /\ description' = generate_table_description(question, sql, df, summResp)
    /\ fallbackLog' =
          IF SummarySucceeds(summResp) THEN fallbackLog
          ELSE fallbackLog \cup {[rows |-> df.nrows, question |-> question, sql |-> sql,
                                   caption |-> description']}
    /\ shown' = Show(<< El("markdown", "About this data", 0, ""),
                        El("caption", "Query executed", 0, ""),
                        El("code", "sql", 0, ""),
                        El("download_button", "Download CSV", 0, "") >>)
    /\ pc' = "done"
    /\ UNCHANGED << loaderVars, apiKey, store, question, resp, sql, df, error,
                    openConns, analysis, diag, summResp, calls, runs >>

Init ==
    /\ apiKey \in Environments
    /\ store \in Stores
    /\ pc = "idle"
    /\ question = ""
    /\ resp = NoResponse
    /\ sql = << >>
    /\ df = NoneDf
    /\ error = NoneErr
    /\ shown = << >>
    /\ openConns = 0
    /\ analysis = << >>
    /\ diag = NoDiag
    /\ summResp = NoResponse
    /\ description = NoDescription
    /\ fallbackLog = {}
    /\ calls = NoCalls
    /\ runs = 0
    /\ LoaderAtRest

Next ==
    \/ HaltNoKey
    \/ Submit
    \/ PostTranslation
    \/ Translate
    \/ RunQuery
    \/ Branch
    \/ Analyze
    \/ Display
    \/ PostSummary
    \/ Summarize

Spec == Init /\ [][Next]_vars

----------------------------------------------------------------------------
(* SpecLoad: the loader's main(), lines 187-220 of src/load_data.py *)

\* the characters of the coordinator labels
LabelChars == {"a", "B", ",", " "}

CoordLabels == UNION {[1..k -> LabelChars] : k \in 0..MaxLabelLen}

\* the participants spreadsheets: absent, unreadable, or up to MaxSourceRows
\* rows
ParticipantSheets ==
    {Missing, Unreadable}
        \cup {Sheet([i \in 1..n |-> Participant(Val("Spain"))]) : n \in 0..MaxSourceRows}

\* the projects spreadsheets: absent, unreadable, one row with any label or no
\* label, or up to MaxSourceRows rows with the same label
ProjectSheets ==
    {Missing, Unreadable}
        \cup {Sheet(<< SourceProject("A1", Val(RiskHeat), Val(5), Val(l)) >>) :
                 l \in CoordLabels}
        \cup {Sheet([i \in 1..n |->
                       SourceProject("A1", Val(RiskFlooding), NullNum, NullText)]) :
                 n \in 0..MaxSourceRows}

\* no database file yet: sqlite3.connect creates an empty one
NoDatabase == [tables |-> {}, projects |-> << >>, participants |-> << >>]

\* main(), lines 195-212: both files must exist; then both are loaded
LoadSources ==
    /\ lpc \in {"ready", "created", "exit", "crashed"}
    /\ loads < MaxLoads
    /\ loads' = loads + 1
    /\ IF sheets.participants.exists /\ sheets.projects.exists
       THEN /\ frames' = [participants |-> load_participants(sheets.participants),
                          projects |-> load_projects(sheets.projects)]
            /\ lpc' = "loaded"
       ELSE /\ frames' = NoFrames
            /\ lpc' = "exit"
    /\ UNCHANGED << appVars, store, sheets >>

\* main(), lines 215-217: create_database on the two frames
CreateDatabase ==
    /\ lpc = "loaded"
    /\ ~frames.participants.none /\ ~frames.projects.none
    /\ \E fault \in CreateFaults :
          LET r == create_database(store, frames.participants, frames.projects, fault)
          IN  /\ store' = r.store
              /\ lpc' = IF r.done THEN "created" ELSE "crashed"
    /\ UNCHANGED << appVars, sheets, frames, loads >>

\* main(), lines 218-220: a source failed to load, sys.exit(1)
ExitFailed ==
    /\ lpc = "loaded"
    /\ frames.participants.none \/ frames.projects.none
    /\ lpc' = "exit"
    /\ UNCHANGED << appVars, store, sheets, frames, loads >>

InitLoad ==
    /\ apiKey = Key("sk-or-v1")
    /\ store \in {NoDatabase} \cup {s \in Stores : Len(s.projects) = 2}
    /\ pc = "idle"
    /\ question = ""
    /\ resp = NoResponse
    /\ sql = << >>
    /\ df = NoneDf
    /\ error = NoneErr
    /\ shown = << >>
    /\ openConns = 0
    /\ analysis = << >>
    /\ diag = NoDiag
    /\ summResp = NoResponse
    /\ description = NoDescription
    /\ fallbackLog = {}
    /\ calls = NoCalls
    /\ runs = 0
    /\ sheets \in [participants : ParticipantSheets, projects : ProjectSheets]
    /\ frames = NoFrames
    /\ lpc = "ready"
    /\ loads = 0

NextLoad ==
    \/ LoadSources
    \/ CreateDatabase
    \/ ExitFailed

SpecLoad == InitLoad /\ [][NextLoad]_vars

----------------------------------------------------------------------------
(* SpecFence: get_sql_from_llm's sanitation on arbitrary reply texts *)

\* a reply is a concatenation of pieces: single characters and whole fences
Pieces ==
    { << Backtick >>, Fence, FenceSql, << "s" >>, << "q" >>, << "l" >>, << " " >>,
      << "\n" >> }

RECURSIVE Concat(_)
Concat(ps) == IF ps = << >> THEN << >> ELSE Head(ps) \o Concat(Tail(ps))

PieceTexts == {Concat(ps) : ps \in UNION {[1..k -> Pieces] : k \in 0..MaxPieces}}

\* a statement: a non-empty text without grave accents that strip() leaves as
\* it is
StmtChars == {"s", "q", "l", " ", "\n"}

Stmts ==
    {t \in UNION {[1..k -> StmtChars] : k \in 1..MaxStmtLen} :
        t[1] \notin Whitespace /\ t[Len(t)] \notin Whitespace}

\* the statement as a Markdown code block, with or without the info string
\* sql, possibly with blank space around the block
Blank == {<< >>, << " " >>, << "\n" >>}

WrappedSql(t) == {a \o FencedSql(t) \o b : a, b \in Blank}
WrappedBare(t) == {a \o FencedBare(t) \o b : a, b \in Blank}

FenceReplies ==
    PieceTexts \cup UNION {WrappedSql(t) \cup WrappedBare(t) : t \in Stmts}

InitFence ==
    /\ apiKey = Key("sk-or-v1")
    /\ store \in {s \in Stores : s.projects = << >>}
    /\ pc = "translated"
    /\ question = "Which projects address flooding?"
    /\ resp \in {Response(200, Body(t)) : t \in FenceReplies}
    /\ sql = << >>
    /\ df = NoneDf
    /\ error = NoneErr
    /\ shown = << >>
    /\ openConns = 0
    /\ analysis = << >>
    /\ diag = NoDiag
    /\ summResp = NoResponse
    /\ description = NoDescription
    /\ fallbackLog = {}
    /\ calls = [NoCalls EXCEPT !.translate = 1]
    /\ runs = 1
    /\ LoaderAtRest

NextFence == Translate

SpecFence == InitFence /\ [][NextFence]_vars

----------------------------------------------------------------------------
(* SpecInterp: the query flow from line 541 on arbitrary result frames *)

\* a column of n cells: its name, its dtype, its null mask (an int64 column
\* holds no null)
ColShapes(n) ==
    {c \in {Col(name, dtype, isna) :
                name \in {"c1", "c2"}, dtype \in {"int64", "float64", "object"},
                isna \in [1..n -> BOOLEAN]} :
        c.dtype = "int64" => \A r \in 1..n : ~c.isna[r]}

\* the frames of at most MaxRows rows and one or two columns
AnyFrames ==
    UNION {{Frame(n, cols) : cols \in UNION {[1..k -> ColShapes(n)] : k \in 1..2}} :
              n \in 0..MaxRows}

InitInterp ==
    /\ apiKey = Key("sk-or-v1")
    /\ store \in {s \in Stores : Len(s.projects) = 2}
    /\ pc = "executed"
    /\ question = "Which projects address flooding?"
    /\ resp = Response(200, Body(SqlAll))
    /\ sql = SqlAll
    /\ df \in AnyFrames
    /\ error = NoneErr
    /\ shown = << >>
    /\ openConns = 0
    /\ analysis = << >>
    /\ diag = NoDiag
    /\ summResp = NoResponse
    /\ description = NoDescription
    /\ fallbackLog = {}
    /\ calls = [NoCalls EXCEPT !.translate = 1, !.execute = 1]
    /\ runs = 1
    /\ LoaderAtRest

NextInterp ==
    \/ Branch
    \/ Analyze
    \/ Display
    \/ PostSummary
    \/ Summarize

SpecInterp == InitInterp /\ [][NextInterp]_vars

----------------------------------------------------------------------------
(* Properties *)

HasShown(kind) == \E i \in 1..Len(shown) : shown[i].kind = kind

\* a call that failed: the post raised, an error status came back, or the
\* body could not be read
CallFailed(r) ==
    \/ r.kind = "network"
    \/ r.kind = "response" /\ (r.status \in 400..599 \/ ~r.body.ok)

\* the three classes of an executed result, as section 4.4 words them
ClassEmpty(d) == d.nrows = 0
ClassDegenerate(d) ==
    /\ d.nrows = 1
    /\ ~ \E i \in 1..Len(d.cols) : d.cols[i].dtype \in NumberDtypes /\ ~d.cols[i].isna[1]
ClassNormal(d) ==
    \/ d.nrows >= 2
    \/ /\ d.nrows = 1
       /\ \E i \in 1..Len(d.cols) : d.cols[i].dtype \in NumberDtypes /\ ~d.cols[i].isna[1]

\* C1: every executed result is in exactly one of the classes Empty (zero
\* rows), Degenerate aggregate (one row, every numeric-typed cell null) and
\* Normal (any other result); Empty and Degenerate results take the
\* no-results path (warning, then the diagnostic pass), Normal results take
\* the display path.
C1_Classification ==
    [][(pc = "executed" /\ ~df.none /\ error.none) =>
          /\ Cardinality({c \in {"Empty", "Degenerate", "Normal"} :
                \/ c = "Empty" /\ ClassEmpty(df)
                \/ c = "Degenerate" /\ ClassDegenerate(df)
                \/ c = "Normal" /\ ClassNormal(df)}) = 1
          /\ (ClassEmpty(df) \/ ClassDegenerate(df)) =>
                /\ pc' = "analyze"
                /\ shown' = Append(shown, El("warning", MsgNoResults, 0, ""))
          /\ ClassNormal(df) => (pc' = "display" /\ shown' = shown)]_vars

\* a one-row result with a null numeric cell has reached the diagnostic pass
C1_Witness ==
    /\ pc = "analyze"
    /\ df.nrows = 1
    /\ \E i \in 1..Len(df.cols) : df.cols[i].dtype = "float64" /\ df.cols[i].isna[1]
    /\ \E i \in 1..Len(df.cols) : df.cols[i].dtype = "object" /\ ~df.cols[i].isna[1]

\* C2: no call of run_query returns with the connection it opened still
\* open, whether the statement ran or the store rejected it.
C2_ConnectionReleased == [][pc = "execute" => openConns' = openConns]_vars

\* the SQL reads the table, in whatever case the keyword and name are written
ReadsProjects(s) == Contains(upper(NeedleFromProjects), upper(s))
ReadsParticipants(s) == Contains(upper(NeedleFromParticipants), upper(s))

HasMultiValueLike(s) ==
    \/ Contains(NeedleRisksLike, s)
    \/ Contains(NeedleThemesLike, s)
    \/ Contains(NeedleRegionsLike, s)

\* C4: after an Empty or Degenerate result of SQL that reads projects with a
\* LIKE predicate on a multi-value attribute, the suggestions hold the
\* case-sensitivity guidance and an example of a stored value (when the store
\* has a non-null one).
C4_LikeGuidance ==
    (/\ pc = "done"
     /\ HasShown("warning")
     /\ diag.failed = "none"
     /\ ReadsProjects(sql)
     /\ HasMultiValueLike(sql)
     /\ \E k \in 1..Len(store.projects) : ~store.projects[k].climate_risks.null)
    => /\ \E i \in 1..Len(analysis) : analysis[i] = TipCase
       /\ \E i \in 1..Len(analysis), k \in 1..Len(store.projects) :
             /\ ~store.projects[k].climate_risks.null
             /\ analysis[i] =
                   ExampleRisks(Prefix(store.projects[k].climate_risks.v, ExampleCut))

\* C5: after an Empty or Degenerate result of SQL that reads participants,
\* with rows in that table, the suggestions hold the most frequent countries
\* (at most 5) with their counts, by descending count.
C5_TopCountries ==
    (/\ pc = "done"
     /\ HasShown("warning")
     /\ diag.failed = "none"
     /\ ReadsParticipants(sql)
     /\ store.participants # << >>)
    => \E i \in 1..Len(analysis) :
          LET l == analysis[i].list
          IN  /\ analysis[i].tag = "Top countries with participants"
              /\ Len(l) \in 1..ProbeLimit
              /\ \A a, b \in 1..Len(l) : a < b => l[a][2] >= l[b][2]
              /\ \A a \in 1..Len(l) :
                    l[a][2] = Cardinality({k \in 1..Len(store.participants) :
                                  store.participants[k].country_territory = l[a][1]})

\* C6: when run_query returned an error, the page shows the store's
\* diagnostic text, shows no result table, and shows the generated SQL.
C6_SqlVisibleOnError ==
    (pc = "done" /\ ~error.none) =>
        /\ \E i \in 1..Len(shown) :
              /\ shown[i].kind = "error"
              /\ shown[i].msg = MsgQueryError
              /\ shown[i].detail = error.text
        /\ ~HasShown("dataframe")
        /\ HasShown("code")

\* C7: a failed translation is reported by exactly the message of its kind:
\* status 401 by the invalid-key message, 429 by the rate-limit message, any
\* other error status by the API error with that status, and a failure that
\* is no HTTP status error by the unexpected-error message.
C7_ErrorKinds ==
    pc = "stopped" =>
        LET m == shown[Len(shown)]
            http == resp.kind = "response" /\ resp.status \in 400..599
        IN  /\ Len(shown) = 1
            /\ m.kind = "error"
            /\ (http /\ resp.status = 401) <=> m.msg = MsgInvalidKey
            /\ (http /\ resp.status = 429) <=> m.msg = MsgRateLimit
            /\ (http /\ resp.status \notin {401, 429})
                  <=> (m.msg = MsgApiError /\ m.code = resp.status)
            /\ ~http <=> m.msg = MsgUnexpected
            /\ m.msg \in {MsgInvalidKey, MsgRateLimit, MsgApiError, MsgUnexpected}

\* a rate-limited translation has been reported
C7_Witness ==
    /\ pc = "stopped"
    /\ resp.kind = "response"
    /\ resp.status = 429
    /\ shown = << El("error", MsgRateLimit, 0, "") >>

\* s is t without its leading and trailing blank space
IsTrimOf(s, t) ==
    \E i \in 1..(Len(t) + 1), j \in 0..Len(t) :
        /\ s = SubSeq(t, i, j)
        /\ \A k \in 1..(i - 1) : t[k] \in Whitespace
        /\ \A k \in (j + 1)..Len(t) : t[k] \in Whitespace
        /\ s = << >> \/ (s[1] \notin Whitespace /\ s[Len(s)] \notin Whitespace)

\* a statement: a non-empty text without grave accents and without blank
\* space at its ends
IsStatement(t) ==
    /\ t # << >>
    /\ \A i \in 1..Len(t) : t[i] # Backtick
    /\ t[1] \notin Whitespace
    /\ t[Len(t)] \notin Whitespace

\* C8: the statement get_sql_from_llm returns holds no fence and no leading
\* or trailing blank space; for a statement wrapped in a code block (with or
\* without the info string sql) it is the enclosed statement; for a reply
\* without any fence it is the reply, trimmed.
C8_FencesStripped ==
    pc = "execute" =>
        LET t == resp.body.text
        IN  /\ ~Contains(Fence, sql)
            /\ sql = << >> \/ (sql[1] \notin Whitespace /\ sql[Len(sql)] \notin Whitespace)
            /\ \A open \in {FenceSql, Fence}, a, b \in Blank :
                  LET pre == a \o open \o << "\n" >>
                      post == << "\n" >> \o Fence \o b
                      mid == SubSeq(t, Len(pre) + 1, Len(t) - Len(post))
                  IN  (/\ Len(t) > Len(pre) + Len(post)
                       /\ SubSeq(t, 1, Len(pre)) = pre
                       /\ SubSeq(t, Len(t) - Len(post) + 1, Len(t)) = post
                       /\ IsStatement(mid))
                      => sql = mid
            /\ ~Contains(Fence, t) => IsTrimOf(sql, t)

\* a statement in an sql code block with blank space around it was unwrapped
C8_Witness ==
    /\ pc = "execute"
    /\ \E st \in Stmts :
          /\ Len(st) = MaxStmtLen
          /\ resp.body.text = << "\n" >> \o FencedSql(st) \o << " " >>
          /\ sql = st

\* C9: a failed summarization yields the fallback caption, and the fallback
\* captions of two failed calls on results of the same row count are equal,
\* whatever the questions and statements were.
C9_FallbackByRowCount ==
    /\ (pc = "done" /\ CallFailed(summResp)) =>
          (description.kind = "fallback" /\ description.rows = df.nrows)
    /\ \A a, b \in fallbackLog : a.rows = b.rows => a.caption = b.caption

\* two summarizations failed on results of equal row count that came from
\* different statements
C9_Witness ==
    \E a, b \in fallbackLog : a.rows = b.rows /\ a.sql # b.sql /\ a.caption = b.caption

\* C10: the summarization request is made only after the result table is on
\* the page, and when it fails the script run still shows, after the table,
\* the caption, the generated SQL and the CSV download.
C10_TableBeforeSummary ==
    /\ calls.summarize > 0 => HasShown("dataframe")
    /\ (pc \in {"done", "stopped"} /\ CallFailed(summResp)) =>
          /\ pc = "done"
          /\ description.kind = "fallback"
          /\ \E i, j, k, l \in 1..Len(shown) :
                /\ i < j /\ j < k /\ k < l
                /\ shown[i].kind = "dataframe"
                /\ shown[j] = El("markdown", "About this data", 0, "")
                /\ shown[k] = El("code", "sql", 0, "")
                /\ shown[l].kind = "download_button"

\* a summarization failed on a network fault and the CSV download is shown
C10_Witness ==
    /\ pc = "done"
    /\ summResp.kind = "network"
    /\ HasShown("dataframe")
    /\ HasShown("download_button")

\* C11: no automatic retry.  In one script run the translation request is
\* posted at most once, the statement is executed at most once and the
\* summarization request is posted at most once, whatever failed; a call is
\* made again only by a new script run (Submit).
C11_NoRetry ==
    /\ calls.translate <= 1
    /\ calls.execute <= 1
    /\ calls.summarize <= 1
    /\ pc \in {"translated", "execute", "stopped"} => calls.translate = 1
    /\ pc \in {"executed", "analyze", "display", "summarize"} => calls.execute = 1
    /\ pc = "summarized" => calls.summarize = 1

\* a rate-limited translation has ended its script run after one request
C11_Witness ==
    /\ pc = "stopped"
    /\ resp.kind = "response" /\ resp.status = 429
    /\ calls = [translate |-> 1, execute |-> 0, summarize |-> 0]
    /\ HasShown("error")

\* C12: the core only reads the store.  No step of a script run (run_query,
\* the diagnostic pass) changes the tables that exist or the rows of projects
\* and participants, so a statement executed twice reads the same rows.
C12_StoreReadOnly == [][store' = store]_vars

\* the keywords of the statements that change a database
MutatingKeywords ==
    { << "I", "N", "S", "E", "R", "T" >>, << "U", "P", "D", "A", "T", "E" >>,
      << "D", "E", "L", "E", "T", "E" >>, << "D", "R", "O", "P" >>,
      << "A", "L", "T", "E", "R" >>, << "C", "R", "E", "A", "T", "E" >> }

HasMutatingKeyword(s) == \E k \in MutatingKeywords : Contains(k, upper(s))

\* a FROM clause of s names something else than projects or participants
ReferencesOtherTable(s) ==
    \E i \in 1..Len(s) :
        /\ i + 4 <= Len(s)
        /\ SubSeq(s, i, i + 4) = << "F", "R", "O", "M", " " >>
        /\ LET rest == SubSeq(s, i + 5, Len(s))
           IN  /\ ~StartsWith(rest, << "p", "r", "o", "j", "e", "c", "t", "s" >>)
               /\ ~StartsWith(rest, << "p", "a", "r", "t", "i", "c", "i", "p", "a", "n",
                                       "t", "s" >>)

\* C13: every statement the service returned is validated before it is
\* executed.  A statement handed to run_query holds no mutating keyword and
\* reads no table other than projects and participants.
C13_ValidatedBeforeExecution ==
    calls.execute > 0 => ~HasMutatingKeyword(sql) /\ ~ReferencesOtherTable(sql)

\* C14: when the credential is missing at startup (the variable is unset or
\* holds the empty text) the application halts before it accepts a question:
\* no script run enters the query flow, so no translation request, no store
\* query and no summarization request is made, and the store is not opened.
C14_HaltsWithoutCredential ==
    (apiKey = NoKey \/ apiKey = Key("")) =>
        /\ pc \in {"idle", "halted"}
        /\ runs = 0 /\ question = ""
        /\ calls = NoCalls
        /\ resp = NoResponse /\ summResp = NoResponse
        /\ df = NoneDf /\ error = NoneErr /\ openConns = 0
        /\ pc = "halted" => shown[1] = El("error", MsgMissingKey, 0, "")

\* the variable is set to the empty text and the script run has halted
C14_Witness ==
    /\ apiKey = Key("")
    /\ pc = "halted"
    /\ HasShown("error")

\* C15: both external calls carry a bounded timeout, so a script run never
\* stays waiting for a service that does not answer: the call ends, and an
\* expired translation call ends the script run with the message shown for
\* rate limiting.
C15_BoundedWait ==
    /\ pc # "waiting"
    /\ resp = Silent => pc = "stopped" /\ shown = << El("error", MsgRateLimit, 0, "") >>
    /\ summResp = Silent => pc = "done" /\ description.kind = "fallback"

\* t holds no lowercase letter
NoLower(t) == \A i \in 1..Len(t), j \in 1..Len(LowerLetters) : t[i] # LowerLetters[j]

HasComma(t) == \E k \in 1..Len(t) : t[k] = ","

\* C16: parse_coordinator returns the label as it is; for a missing label or
\* one without a comma the organization and the country are unset; for a
\* label with a comma the organization is the text before the last comma,
\* trimmed and in capitals, and the country the trimmed text after it.  Every
\* coordinator_org in the store that is not NULL holds no lowercase letter.
C16_ParseCoordinator ==
    /\ ~frames.projects.none =>
          /\ Len(frames.projects.rows) = Len(sheets.projects.rows)
          /\ \A i \in 1..Len(frames.projects.rows) :
                LET label == sheets.projects.rows[i].coordinator
                    row == frames.projects.rows[i]
                IN  /\ row.coordinator = label
                    /\ (label.null \/ ~HasComma(label.v)) =>
                          row.coordinator_org.null /\ row.coordinator_country.null
                    /\ (~label.null /\ HasComma(label.v)) =>
                          \E k \in 1..Len(label.v) :
                             /\ label.v[k] = ","
                             /\ ~HasComma(SubSeq(label.v, k + 1, Len(label.v)))
                             /\ ~row.coordinator_org.null
                             /\ IsTrimOf(row.coordinator_org.v,
                                         [j \in 1..(k - 1) |-> UpperChar(label.v[j])])
                             /\ ~row.coordinator_country.null
                             /\ IsTrimOf(row.coordinator_country.v,
                                         SubSeq(label.v, k + 1, Len(label.v)))
    /\ \A i \in 1..Len(store.projects) :
          ~store.projects[i].coordinator_org.null =>
              NoLower(store.projects[i].coordinator_org.v)

\* the label " a,B" has been loaded: organization "A", country "B"
C16_Witness ==
    /\ lpc = "created"
    /\ Len(store.projects) = 1
    /\ store.projects[1].coordinator = Val(<< " ", "a", ",", "B" >>)
    /\ store.projects[1].coordinator_org = Val(<< "A" >>)
    /\ store.projects[1].coordinator_country = Val(<< "B" >>)

\* C17: after create_database ran to its end both tables exist and hold one
\* row per row of their source, in the source's order, whatever the file
\* held before and however often the loader has run; a step taken while a
\* source is absent or failed to load leaves the database file as it was.
C17_LoaderCounts ==
    /\ [](lpc = "created" =>
            /\ AllTables \subseteq store.tables
            /\ Len(store.participants) = Len(sheets.participants.rows)
            /\ Len(store.projects) = Len(sheets.projects.rows)
            /\ store.participants = sheets.participants.rows
            /\ \A i \in 1..Len(store.projects) :
                  store.projects[i].acronym = sheets.projects.rows[i].acronym)
    /\ [][(\/ ~sheets.participants.readable
           \/ ~sheets.projects.readable
           \/ frames'.participants.none
           \/ frames'.projects.none) => store' = store]_vars

\* the loader ran twice over a file that held other rows
C17_Witness ==
    /\ lpc = "created"
    /\ loads = 2
    /\ Len(sheets.projects.rows) = 2 /\ Len(store.projects) = 2
    /\ Len(sheets.participants.rows) = 1 /\ Len(store.participants) = 1

\* C18: after a failed translation the script run ends at once.  The one
\* error of the failure is all the page shows: run_query is not called, no
\* probe runs, no summarization is requested, and the handler at the end of
\* the query flow adds no error of its own.
C18_StopsAfterTranslationFailure ==
    (CallFailed(resp) /\ pc # "translated") =>
        /\ pc = "stopped"
        /\ calls = [translate |-> 1, execute |-> 0, summarize |-> 0]
        /\ sql = << >> /\ df = NoneDf /\ error = NoneErr
        /\ analysis = << >> /\ diag = NoDiag
        /\ summResp = NoResponse /\ description = NoDescription
        /\ Len(shown) = 1
        /\ shown[1].kind = "error" /\ shown[1].msg # MsgOuterError

\* a translation call that raised has ended its script run
C18_Witness ==
    /\ pc = "stopped"
    /\ resp = NetworkFault
    /\ shown = << El("error", MsgUnexpected, 0, "Exception") >>

\* C19: the summary is requested for Normal results only.  Once the
\* no-results warning is shown, no summarization request is made and neither
\* the table nor the CSV download appears; the run ends with the warning, the
\* suggestions (when there are any) and the generated SQL on the page.
C19_SummaryOnlyForNormal ==
    /\ HasShown("warning") =>
          /\ calls.summarize = 0 /\ summResp = NoResponse
          /\ description = NoDescription
          /\ ~HasShown("dataframe") /\ ~HasShown("download_button")
          /\ pc \in {"analyze", "done"}
    /\ calls.summarize > 0 =>
          /\ df.nrows >= 1
          /\ ~HasShown("warning") /\ HasShown("dataframe")
    /\ (pc = "done" /\ HasShown("warning")) =>
          /\ shown[1] = El("warning", MsgNoResults, 0, "")
          /\ HasShown("code")
          /\ analysis # << >> =>
                /\ HasShown("info")
                /\ \A i \in 1..Len(analysis) :
                      \E j \in 1..Len(shown) :
                          shown[j] = El("markdown", analysis[i].tag, 0, "")

\* an Empty result's run has ended with a suggestion on the page
C19_Witness ==
    /\ pc = "done"
    /\ HasShown("warning") /\ HasShown("markdown") /\ HasShown("code")
    /\ df.nrows = 0
    /\ analysis # << >>

\* the frame has no column of a numeric dtype
NoNumericColumn(d) == \A i \in 1..Len(d.cols) : d.cols[i].dtype \notin NumberDtypes

OutcomesShown ==
    {k \in {"error", "warning", "dataframe"} :
        \E i \in 1..Len(shown) :
            /\ shown[i].kind = k
            /\ k = "error" => shown[i].msg = MsgQueryError}

\* C21: run_query returns either a result and no error or no result and an
\* error text, never both and never neither; and a script run in which a
\* statement was executed ends with exactly one of the three outcomes on the
\* page (execution error, no-results warning, result table), whatever the
\* error text is, the empty text included.
C21_ExactlyOneOutcome ==
    /\ pc = "executed" => (df.none /\ ~error.none) \/ (~df.none /\ error.none)
    /\ (pc = "done" /\ calls.execute = 1) => Cardinality(OutcomesShown) = 1

====
